---- MODULE Spec2Model ----
(***************************************************************************)
(* Model of ComparisonEngine (comparison_tool/src/utils/comparison_engine  *)
(* .py): column auto-mapping, table preparation, comparison, distinct      *)
(* values.                                                                 *)
(*                                                                         *)
(* Representation                                                          *)
(*   column name  a Python str, as the sequence of its characters          *)
(*                (<<>> is '', <<"a","_">> is 'a_')                        *)
(*   cell value   a record [kind, n, s]: IntV(n), StrV(s) or NullV (NaN/None) *)
(*   table        [cols |-> <<[name, dtype], ...>>, rows |-> <<row, ...>>] *)
(*                where row[j] is the cell of column j                     *)
(*   Python None  NoneV; a list l is Some(l)                               *)
(*   exception    operators that can raise return [ok |-> FALSE, exc |-> e]*)
(*                with e the Python exception class name                   *)
(***************************************************************************)
EXTENDS Integers, Sequences, FiniteSets, TLC

VARIABLES source_df,         \* self.source_df
          target_df,         \* self.target_df
          mapping,           \* self.mapping
          join_columns,      \* self.join_columns
          excluded_columns,  \* self.excluded_columns
          ret                \* outcome of the last call: what it returned or raised

vars == <<source_df, target_df, mapping, join_columns, excluded_columns, ret>>

----------------------------------------------------------------------------
(* Python values *)

NoneV == [isNone |-> TRUE, list |-> <<>>]

Some(l) == [isNone |-> FALSE, list |-> l]

\* bool(x) of an Optional[list]: None and [] are falsy
Truthy(x) == ~x.isNone /\ x.list # <<>>

IntV(n) == [kind |-> "int", n |-> n, s |-> ""]

StrV(s) == [kind |-> "str", n |-> 0, s |-> s]

NullV == [kind |-> "null", n |-> 0, s |-> ""]

Range(f) == {f[i] : i \in DOMAIN f}

\* the set of sequences over S of length 0..n
SeqsUpTo(S, n) == UNION {[1..k -> S] : k \in 0..n}

\* sequences without a repeated element
Distinct(q) == \A i, j \in DOMAIN q : i # j => q[i] # q[j]

\* index of the first element of q satisfying P, 0 when there is none
FirstIndex(q, P(_)) ==
    IF \E i \in DOMAIN q : P(q[i])
    THEN CHOOSE i \in DOMAIN q : P(q[i]) /\ \A j \in 1..(i - 1) : ~P(q[j])
    ELSE 0

\* index of the last element of q satisfying P, 0 when there is none
LastIndex(q, P(_)) ==
    IF \E i \in DOMAIN q : P(q[i])
    THEN CHOOSE i \in DOMAIN q : P(q[i]) /\ \A j \in (i + 1)..Len(q) : ~P(q[j])
    ELSE 0

RECURSIVE SumSeq(_)
SumSeq(q) == IF q = <<>> THEN 0 ELSE Head(q) + SumSeq(Tail(q))

----------------------------------------------------------------------------
(* str methods used by auto_map_columns, character by character *)

UpperChars == {"A", "B"}

LowerChars == {"a", "b"}

OtherChars == {"_"}

Chars == UpperChars \cup LowerChars \cup OtherChars

\* c.lower()
LowerChar(c) == CASE c = "A" -> "a" [] c = "B" -> "b" [] OTHER -> c

\* c.isalnum()
IsAlnum(c) == c \in UpperChars \cup LowerChars

\* s.lower()
Lower(s) == [i \in DOMAIN s |-> LowerChar(s[i])]

\* ''.join(e.lower() for e in s if e.isalnum())
Clean(s) == Lower(SelectSeq(s, IsAlnum))

----------------------------------------------------------------------------
(* tables *)

ColNames(df) == [i \in DOMAIN df.cols |-> df.cols[i].name]

NRows(df) == Len(df.rows)

HasCol(df, c) == \E i \in DOMAIN df.cols : df.cols[i].name = c

\* positions of the columns labelled c
ColPositions(df, c) == {i \in DOMAIN df.cols : df.cols[i].name = c}

ColIndex(df, c) == CHOOSE i \in DOMAIN df.cols : df.cols[i].name = c

\* the cells of column position i, top to bottom
ColValues(df, i) == [r \in DOMAIN df.rows |-> df.rows[r][i]]

EmptyFrame == [cols |-> <<>>, rows |-> <<>>]

----------------------------------------------------------------------------
(* auto_map_columns *)

\* t_col after the exact-match step: s_col or None
ExactMatch(s_col, target_cols) ==
    IF \E i \in DOMAIN target_cols : target_cols[i] = s_col
    THEN [isNone |-> FALSE, name |-> s_col]
    ELSE [isNone |-> TRUE, name |-> <<>>]

\* next((col for col in target_cols if P(col)), None)
NextMatch(target_cols, P(_)) ==
    LET i == FirstIndex(target_cols, P)
    IN  IF i = 0 THEN [isNone |-> TRUE, name |-> <<>>]
        ELSE [isNone |-> FALSE, name |-> target_cols[i]]

\* `not t_col`: None and '' are falsy
NotTCol(t) == t.isNone \/ t.name = <<>>

CaseMatch(s_col, target_cols) ==
    LET SameLower(col) == Lower(col) = Lower(s_col)
    IN  NextMatch(target_cols, SameLower)

CleanMatch(s_col, target_cols) ==
    LET SameClean(col) == Clean(col) = Clean(s_col)
    IN  NextMatch(target_cols, SameClean)

\* the target chosen for one source column (the loop body, lines 40-51)
MatchTarget(s_col, target_cols) ==
    LET t1 == ExactMatch(s_col, target_cols)
        t2 == IF NotTCol(t1) THEN CaseMatch(s_col, target_cols) ELSE t1
        t3 == IF NotTCol(t2) THEN CleanMatch(s_col, target_cols) ELSE t2
    IN  t3

\* one mapping entry
Entry(src, tgt, jn, dt, ex) ==
    [source |-> src, target |-> tgt, join |-> jn, data_type |-> dt, exclude |-> ex]

\* mutant: a source column without a match gets no entry
AutoMapMatchedOnly(sdf, tdf) ==
    LET target_cols == ColNames(tdf)
        all == [i \in DOMAIN sdf.cols |->
                   LET t == MatchTarget(sdf.cols[i].name, target_cols)
                   IN  Entry(sdf.cols[i].name,
                             IF NotTCol(t) THEN <<>> ELSE t.name,
                             FALSE, sdf.cols[i].dtype, FALSE)]
    IN  SelectSeq(all, LAMBDA e : e.target # <<>>)

AutoMapColumns(sdf, tdf) ==
    LET target_cols == ColNames(tdf)
    IN  [i \in DOMAIN sdf.cols |->
            LET t == MatchTarget(sdf.cols[i].name, target_cols)
            IN  Entry(sdf.cols[i].name,
                      IF NotTCol(t) THEN <<>> ELSE t.name,
                      FALSE, sdf.cols[i].dtype, FALSE)]

----------------------------------------------------------------------------
(* set_mapping *)

IsExcluded(e) == e.exclude

NotExcluded(e) == ~e.exclude

\* [m['source'] for m in mapping if m['exclude']]
ExcludedSources(m) ==
    LET ex == SelectSeq(m, IsExcluded)
    IN  [i \in DOMAIN ex |-> ex[i].source]

----------------------------------------------------------------------------
(* _prepare_dataframes *)

PrepFail(e) == [ok |-> FALSE, exc |-> e, source |-> EmptyFrame, target |-> EmptyFrame]

\* mutant: the selection drops the rows that hold no value in the listed
\* columns
SelectColsDropNull(df, names) ==
    [cols |-> [i \in DOMAIN names |-> df.cols[ColIndex(df, names[i])]],
     rows |-> SelectSeq([r \in DOMAIN df.rows |->
                           [i \in DOMAIN names |-> df.rows[r][ColIndex(df, names[i])]]],
                        LAMBDA row : \E i \in DOMAIN row : row[i] # NullV)]

\* df[[names]]: the listed columns in list order, KeyError when one is missing
SelectCols(df, names) ==
    [cols |-> [i \in DOMAIN names |-> df.cols[ColIndex(df, names[i])]],
     rows |-> [r \in DOMAIN df.rows |->
                 [i \in DOMAIN names |-> df.rows[r][ColIndex(df, names[i])]]]]

\* rename_dict.get(label, label); a later entry of the dict comprehension
\* overwrites an earlier one with the same key, an empty target is no key
RenameLabel(label, m) ==
    LET Renames(e) == ~e.exclude /\ e.target # <<>> /\ e.target = label
        i == LastIndex(m, Renames)
    IN  IF i = 0 THEN label ELSE m[i].source

RenameCols(df, m) ==
    [cols |-> [i \in DOMAIN df.cols |->
                 [name |-> RenameLabel(df.cols[i].name, m), dtype |-> df.cols[i].dtype]],
     rows |-> df.rows]

\* mutant: no check that a mapping was recorded, the raw tables are compared
PrepareUnchecked(sdf, tdf, mp) ==
    IF ~Truthy(mp) THEN [ok |-> TRUE, exc |-> "", source |-> sdf, target |-> tdf]
    ELSE LET kept == SelectSeq(mp.list, NotExcluded)
             snames == [i \in DOMAIN kept |-> kept[i].source]
             tnames == [i \in DOMAIN kept |-> kept[i].target]
         IN  IF \E i \in DOMAIN snames : ~HasCol(sdf, snames[i]) THEN PrepFail("KeyError")
             ELSE IF \E i \in DOMAIN tnames : ~HasCol(tdf, tnames[i]) THEN PrepFail("KeyError")
             ELSE [ok |-> TRUE, exc |-> "",
                   source |-> SelectCols(sdf, snames),
                   target |-> RenameCols(SelectCols(tdf, tnames), mp.list)]

\* mutant: the columns of the excluded entries are looked up as well
PrepareLookupAll(sdf, tdf, mp) ==
    IF ~Truthy(mp) THEN PrepFail("ValueError")
    ELSE LET kept == SelectSeq(mp.list, NotExcluded)
             snames == [i \in DOMAIN kept |-> kept[i].source]
             tnames == [i \in DOMAIN kept |-> kept[i].target]
         IN  IF \E i \in DOMAIN mp.list : ~HasCol(sdf, mp.list[i].source)
             THEN PrepFail("KeyError")
             ELSE IF \E i \in DOMAIN mp.list : ~HasCol(tdf, mp.list[i].target)
             THEN PrepFail("KeyError")
             ELSE [ok |-> TRUE, exc |-> "",
                   source |-> SelectCols(sdf, snames),
                   target |-> RenameCols(SelectCols(tdf, tnames), mp.list)]

\* mutant: the exclude flag is ignored, every entry's columns are kept
PrepareKeepExcluded(sdf, tdf, mp) ==
    IF ~Truthy(mp) THEN PrepFail("ValueError")
    ELSE LET snames == [i \in DOMAIN mp.list |-> mp.list[i].source]
             tnames == [i \in DOMAIN mp.list |-> mp.list[i].target]
             all == [i \in DOMAIN mp.list |-> [mp.list[i] EXCEPT !.exclude = FALSE]]
         IN  IF \E i \in DOMAIN snames : ~HasCol(sdf, snames[i]) THEN PrepFail("KeyError")
             ELSE IF \E i \in DOMAIN tnames : ~HasCol(tdf, tnames[i]) THEN PrepFail("KeyError")
             ELSE [ok |-> TRUE, exc |-> "",
                   source |-> SelectCols(sdf, snames),
                   target |-> RenameCols(SelectCols(tdf, tnames), all)]

\* mutant: an entry without a target is passed over like an excluded one
PrepareSkipUnmapped(sdf, tdf, mp) ==
    IF ~Truthy(mp) THEN PrepFail("ValueError")
    ELSE LET kept == SelectSeq(mp.list, LAMBDA e : NotExcluded(e) /\ e.target # <<>>)
             snames == [i \in DOMAIN kept |-> kept[i].source]
             tnames == [i \in DOMAIN kept |-> kept[i].target]
         IN  IF \E i \in DOMAIN snames : ~HasCol(sdf, snames[i]) THEN PrepFail("KeyError")
             ELSE IF \E i \in DOMAIN tnames : ~HasCol(tdf, tnames[i]) THEN PrepFail("KeyError")
             ELSE [ok |-> TRUE, exc |-> "",
                   source |-> SelectCols(sdf, snames),
                   target |-> RenameCols(SelectCols(tdf, tnames), mp.list)]

PrepareDataframes(sdf, tdf, mp) ==
    IF ~Truthy(mp) THEN PrepFail("ValueError")
    ELSE LET kept == SelectSeq(mp.list, NotExcluded)
             snames == [i \in DOMAIN kept |-> kept[i].source]
             tnames == [i \in DOMAIN kept |-> kept[i].target]
         IN  IF \E i \in DOMAIN snames : ~HasCol(sdf, snames[i]) THEN PrepFail("KeyError")
             ELSE IF \E i \in DOMAIN tnames : ~HasCol(tdf, tnames[i]) THEN PrepFail("KeyError")
             ELSE [ok |-> TRUE, exc |-> "",
                   source |-> SelectCols(sdf, snames),
                   target |-> RenameCols(SelectCols(tdf, tnames), mp.list)]

----------------------------------------------------------------------------
(* column statistics (pandas Series methods) *)

\* np.issubdtype(dtype, np.number)
IsNumeric(dtype) == dtype \in {"int64", "float64"}

NonNull(vals) == SelectSeq(vals, LAMBDA v : v.kind # "null")

\* Series.isnull().sum()
NullCount(vals) == Len(vals) - Len(NonNull(vals))

\* Series.nunique(): distinct non-null values
NUnique(vals) == Cardinality(Range(NonNull(vals)))

\* Series.sum() of the numeric cells, nulls skipped
SumOf(vals) == SumSeq([i \in DOMAIN vals |-> vals[i].n])

\* Series.mean() as the fraction sum/count (count 0: NaN)
MeanOf(vals) == [num |-> SumOf(vals), den |-> Len(NonNull(vals))]

\* Series.std() through the sample variance var_num/var_den (var_den 0: NaN)
StdOf(vals) ==
    LET nn == NonNull(vals)
        n == Len(nn)
    IN  [var_num |-> n * SumSeq([i \in DOMAIN nn |-> nn[i].n * nn[i].n])
                        - SumOf(nn) * SumOf(nn),
         var_den |-> n * (n - 1)]

\* a cell that Series.mean() cannot convert to a number
HasStrCell(vals) == \E i \in DOMAIN vals : vals[i].kind = "str"

----------------------------------------------------------------------------
(* _generate_column_summary *)

\* the positions of the target columns labelled c, left to right
TargetPositions(target, c) ==
    SelectSeq([i \in DOMAIN target.cols |-> i], LAMBDA i : target.cols[i].name = c)

\* the exception raised for source column c, "" when there is none:
\*   line 204  c in None            TypeError
\*   line 209  target[c]            KeyError when target has no column c
\*   line 215  source[c].dtype      AttributeError when source[c] is a DataFrame
\*   line 220  target[c].mean()     TypeError when an object column holds strings
SummaryError(source, target, jc, c) ==
    IF jc.isNone THEN "TypeError"
    ELSE IF \E k \in DOMAIN jc.list : jc.list[k] = c THEN ""
    ELSE IF ~HasCol(target, c) THEN "KeyError"
    ELSE IF Cardinality(ColPositions(source, c)) > 1 THEN "AttributeError"
    ELSE IF /\ IsNumeric(source.cols[ColIndex(source, c)].dtype)
            /\ \E i \in ColPositions(target, c) : HasStrCell(ColValues(target, i))
         THEN "TypeError"
    ELSE ""

\* summary[col] for a column that raised nothing; the target side is a Series
\* of one value per target column labelled col (a single one when the label is
\* unique in the target)
\* mutant: the sum, mean and standard deviation are computed for every
\* column and count a null as 0
ColumnStatsAll(source, target, c) ==
    LET sv == ColValues(source, ColIndex(source, c))
        tp == TargetPositions(target, c)
    IN  [source_null_count |-> NullCount(sv),
         target_null_count |-> [k \in DOMAIN tp |-> NullCount(ColValues(target, tp[k]))],
         source_unique_count |-> NUnique(sv),
         target_unique_count |-> [k \in DOMAIN tp |-> NUnique(ColValues(target, tp[k]))],
         source_sum |-> SumOf(sv),
         target_sum |-> [k \in DOMAIN tp |-> SumOf(ColValues(target, tp[k]))],
         source_mean |-> [num |-> SumOf(sv), den |-> Len(sv)],
         target_mean |-> [k \in DOMAIN tp |->
                            [num |-> SumOf(ColValues(target, tp[k])),
                             den |-> Len(ColValues(target, tp[k]))]],
         source_std |-> StdOf(sv),
         target_std |-> [k \in DOMAIN tp |-> StdOf(ColValues(target, tp[k]))]]

ColumnStats(source, target, c) ==
    LET sv == ColValues(source, ColIndex(source, c))
        tp == TargetPositions(target, c)
        base == [source_null_count |-> NullCount(sv),
                 target_null_count |-> [k \in DOMAIN tp |-> NullCount(ColValues(target, tp[k]))],
                 source_unique_count |-> NUnique(sv),
                 target_unique_count |-> [k \in DOMAIN tp |-> NUnique(ColValues(target, tp[k]))]]
    IN  IF IsNumeric(source.cols[ColIndex(source, c)].dtype)
        THEN [source_null_count |-> base.source_null_count,
              target_null_count |-> base.target_null_count,
              source_unique_count |-> base.source_unique_count,
              target_unique_count |-> base.target_unique_count,
              source_sum |-> SumOf(sv),
              target_sum |-> [k \in DOMAIN tp |-> SumOf(ColValues(target, tp[k]))],
              source_mean |-> MeanOf(sv),
              target_mean |-> [k \in DOMAIN tp |-> MeanOf(ColValues(target, tp[k]))],
              source_std |-> StdOf(sv),
              target_std |-> [k \in DOMAIN tp |-> StdOf(ColValues(target, tp[k]))]]
        ELSE base

GenerateColumnSummary(source, target, jc) ==
    LET names == ColNames(source)
        Fails(c) == SummaryError(source, target, jc, c) # ""
        bad == FirstIndex(names, Fails)
    IN  IF bad # 0
        THEN [ok |-> FALSE, exc |-> SummaryError(source, target, jc, names[bad]),
              summary |-> <<>>]
        ELSE [ok |-> TRUE, exc |-> "",
              summary |-> [c \in {names[i] : i \in {j \in DOMAIN names :
                                     \A k \in DOMAIN jc.list : jc.list[k] # names[j]}}
                             |-> ColumnStats(source, target, c)]]

----------------------------------------------------------------------------
(* get_distinct_values *)

\* Series.value_counts().to_dict(): value -> count over the non-null cells
ValueCounts(vals) ==
    [v \in Range(NonNull(vals)) |-> Cardinality({i \in DOMAIN vals : vals[i] = v})]

\* the default column list of lines 277-278; source[col].dtype raises
\* AttributeError for a label that is duplicated in source and present in target
DefaultColumnsError(source, target) ==
    \E i \in DOMAIN source.cols :
        /\ HasCol(target, source.cols[i].name)
        /\ Cardinality(ColPositions(source, source.cols[i].name)) > 1

DefaultColumns(source, target) ==
    LET names == ColNames(source)
        Wanted(c) == HasCol(target, c) /\ ~IsNumeric(source.cols[ColIndex(source, c)].dtype)
    IN  SelectSeq(names, Wanted)

\* whether the loop body of lines 286-296 stores an entry for col: the column
\* is in both tables, and value_counts() did not raise (DataFrame.value_counts
\* groups by the column labels and raises ValueError when a label is duplicated)
DistinctStored(source, target, c) ==
    /\ HasCol(source, c) /\ HasCol(target, c)
    /\ Cardinality(ColPositions(source, c)) = 1
    /\ Cardinality(ColPositions(target, c)) = 1

\* mutant: matching compares the histograms, counts included
DistinctEntryWithCounts(source, target, c) ==
    LET source_distinct == ValueCounts(ColValues(source, ColIndex(source, c)))
        target_distinct == ValueCounts(ColValues(target, ColIndex(target, c)))
    IN  [source_values |-> source_distinct,
         target_values |-> target_distinct,
         source_count |-> Cardinality(DOMAIN source_distinct),
         target_count |-> Cardinality(DOMAIN target_distinct),
         matching |-> source_distinct = target_distinct]

DistinctEntry(source, target, c) ==
    LET source_distinct == ValueCounts(ColValues(source, ColIndex(source, c)))
        target_distinct == ValueCounts(ColValues(target, ColIndex(target, c)))
    IN  [source_values |-> source_distinct,
         target_values |-> target_distinct,
         source_count |-> Cardinality(DOMAIN source_distinct),
         target_count |-> Cardinality(DOMAIN target_distinct),
         matching |-> DOMAIN source_distinct = DOMAIN target_distinct]

\* mutant: the first column that raises aborts the whole call
GetDistinctValuesAborting(sdf, tdf, mp, columns) ==
    LET prep == PrepareDataframes(sdf, tdf, mp)
        source == prep.source
        target == prep.target
    IN  IF ~prep.ok THEN <<>>
        ELSE IF ~Truthy(columns) /\ DefaultColumnsError(source, target) THEN <<>>
        ELSE LET cols == IF Truthy(columns) THEN columns.list
                         ELSE DefaultColumns(source, target)
             IN  IF \E j \in DOMAIN cols :
                        /\ HasCol(source, cols[j]) /\ HasCol(target, cols[j])
                        /\ ~DistinctStored(source, target, cols[j])
                 THEN <<>>
                 ELSE [c \in {cols[i] : i \in {j \in DOMAIN cols :
                                 DistinctStored(source, target, cols[j])}}
                         |-> DistinctEntry(source, target, c)]

\* mutant: only a missing list stands for the default columns, an empty
\* list is worked on as it is
GetDistinctValuesListGiven(sdf, tdf, mp, columns) ==
    LET prep == PrepareDataframes(sdf, tdf, mp)
        source == prep.source
        target == prep.target
    IN  IF ~prep.ok THEN <<>>
        ELSE IF columns.isNone /\ DefaultColumnsError(source, target) THEN <<>>
        ELSE LET cols == IF ~columns.isNone THEN columns.list
                         ELSE DefaultColumns(source, target)
             IN  [c \in {cols[i] : i \in {j \in DOMAIN cols :
                            DistinctStored(source, target, cols[j])}}
                    |-> DistinctEntry(source, target, c)]

\* columns is the argument: NoneV or Some(list of names); the result is the
\* returned dict, as a function from column names to entries
GetDistinctValues(sdf, tdf, mp, columns) ==
    LET prep == PrepareDataframes(sdf, tdf, mp)
        source == prep.source
        target == prep.target
    IN  IF ~prep.ok THEN <<>>
        ELSE IF ~Truthy(columns) /\ DefaultColumnsError(source, target) THEN <<>>
        ELSE LET cols == IF Truthy(columns) THEN columns.list
                         ELSE DefaultColumns(source, target)
             IN  [c \in {cols[i] : i \in {j \in DOMAIN cols :
                            DistinctStored(source, target, cols[j])}}
                    |-> DistinctEntry(source, target, c)]

----------------------------------------------------------------------------
(* pd.merge(source, target, on=join_columns, how='outer', indicator=True) *)

\* the order of str cells, for the key sort of an outer merge
StrOrder == <<"x", "y", "z">>

StrRank(s) == CHOOSE i \in DOMAIN StrOrder : StrOrder[i] = s

\* u sorts before v: numbers by value, strings by StrOrder, nulls last
ValLess(u, v) ==
    CASE u.kind = "null" -> FALSE
      [] v.kind = "null" -> TRUE
      [] u.kind = "int" /\ v.kind = "int" -> u.n < v.n
      [] u.kind = "str" /\ v.kind = "str" -> StrRank(u.s) < StrRank(v.s)
      [] OTHER -> u.kind = "int"

\* lexicographic order of key tuples of equal length
KeyLess(a, b) ==
    \E i \in DOMAIN a : ValLess(a[i], b[i]) /\ \A j \in 1..(i - 1) : a[j] = b[j]

\* the join key of a row: its cells in the columns named by on
KeyOf(df, row, on) == [k \in DOMAIN on |-> row[ColIndex(df, on[k])]]

Keys(df, on) == {KeyOf(df, df.rows[r], on) : r \in DOMAIN df.rows}

\* rows of q in ascending key order, rows of equal key in their order in q
\* (an outer merge sorts by key in pandas 2.2 and later)
SortByKey(q, K(_)) ==
    LET Before(i, j) == KeyLess(K(q[i]), K(q[j])) \/ (K(q[i]) = K(q[j]) /\ i < j)
        Place(i) == 1 + Cardinality({j \in DOMAIN q : Before(j, i)})
    IN  [p \in DOMAIN q |-> q[CHOOSE i \in DOMAIN q : Place(i) = p]]

\* the exception raised by merge for key column k, "" when there is none: the
\* label is looked up in the right table, then in the left one (KeyError when
\* missing, ValueError when not unique)
MergeKeyError(left, right, k) ==
    IF ~HasCol(right, k) THEN "KeyError"
    ELSE IF Cardinality(ColPositions(right, k)) > 1 THEN "ValueError"
    ELSE IF ~HasCol(left, k) THEN "KeyError"
    ELSE IF Cardinality(ColPositions(left, k)) > 1 THEN "ValueError"
    ELSE ""

\* "You are trying to merge on object and int64 columns": both tables have
\* rows and one key column is numeric while the other is an object column
MergeDtypeError(left, right, k) ==
    /\ NRows(left) > 0 /\ NRows(right) > 0
    /\ IsNumeric(left.cols[ColIndex(left, k)].dtype)
         # IsNumeric(right.cols[ColIndex(right, k)].dtype)

IsKey(on, c) == \E k \in DOMAIN on : on[k] = c

\* labels of the merged frame (pandas 2.2 and later): the left labels in
\* their order, then the right labels that are no key; a non-key label
\* present on both sides is suffixed _x on the left and _y on the right
MergedColumns(left, right, on) ==
    LET lnames == ColNames(left)
        rkeep == SelectSeq(ColNames(right), LAMBDA c : ~IsKey(on, c))
        Overlap(c) == (\E i \in DOMAIN lnames : lnames[i] = c)
                      /\ (\E i \in DOMAIN rkeep : rkeep[i] = c)
    IN  [i \in DOMAIN lnames |->
            IF Overlap(lnames[i]) THEN lnames[i] \o <<"_", "x">> ELSE lnames[i]]
        \o [i \in DOMAIN rkeep |->
            IF Overlap(rkeep[i]) THEN rkeep[i] \o <<"_", "y">> ELSE rkeep[i]]

\* a left_only row of the merged frame: the left cells, nulls for the right
LeftOnlyRow(left, right, on, row) ==
    LET rpos == SelectSeq([i \in DOMAIN right.cols |-> i],
                          LAMBDA i : ~IsKey(on, right.cols[i].name))
    IN  row \o [i \in DOMAIN rpos |-> NullV]

\* a right_only row: the right key cells in the key columns, nulls for the
\* other left columns, then the right cells that are no key
RightOnlyRow(left, right, on, row) ==
    LET rpos == SelectSeq([i \in DOMAIN right.cols |-> i],
                          LAMBDA i : ~IsKey(on, right.cols[i].name))
    IN  [i \in DOMAIN left.cols |->
            IF IsKey(on, left.cols[i].name)
            THEN row[ColIndex(right, left.cols[i].name)] ELSE NullV]
        \o [i \in DOMAIN rpos |-> row[rpos[i]]]

\* mutant: a key pairs one row with one row; a row whose key repeats in its
\* own table is left without a partner
MergeOneToOne(left, right, on) ==
    LET Fails(k) == MergeKeyError(left, right, k) # ""
        bad == FirstIndex(on, Fails)
    IN  IF bad # 0
        THEN [ok |-> FALSE, exc |-> MergeKeyError(left, right, on[bad]),
              left_only |-> EmptyFrame, right_only |-> EmptyFrame]
        ELSE IF \E k \in DOMAIN on : MergeDtypeError(left, right, on[k])
        THEN [ok |-> FALSE, exc |-> "ValueError",
              left_only |-> EmptyFrame, right_only |-> EmptyFrame]
        ELSE LET LKey(row) == KeyOf(left, row, on)
                 RKey(row) == KeyOf(right, row, on)
                 LTimes(key) == Cardinality({r \in DOMAIN left.rows : LKey(left.rows[r]) = key})
                 RTimes(key) == Cardinality({r \in DOMAIN right.rows : RKey(right.rows[r]) = key})
                 lonly == SelectSeq(left.rows, LAMBDA row :
                              LKey(row) \notin Keys(right, on) \/ LTimes(LKey(row)) > 1)
                 ronly == SelectSeq(right.rows, LAMBDA row :
                              RKey(row) \notin Keys(left, on) \/ RTimes(RKey(row)) > 1)
                 lsorted == SortByKey(lonly, LKey)
                 rsorted == SortByKey(ronly, RKey)
                 labels == MergedColumns(left, right, on)
             IN  [ok |-> TRUE, exc |-> "",
                  left_only |-> [cols |-> labels,
                                 rows |-> [i \in DOMAIN lsorted |->
                                             LeftOnlyRow(left, right, on, lsorted[i])]],
                  right_only |-> [cols |-> labels,
                                  rows |-> [i \in DOMAIN rsorted |->
                                              RightOnlyRow(left, right, on, rsorted[i])]]]

\* the result: the left_only and the right_only rows of the merged frame
\* without the _merge column, each [cols |-> labels, rows |-> rows]
Merge(left, right, on) ==
    LET Fails(k) == MergeKeyError(left, right, k) # ""
        bad == FirstIndex(on, Fails)
    IN  IF bad # 0
        THEN [ok |-> FALSE, exc |-> MergeKeyError(left, right, on[bad]),
              left_only |-> EmptyFrame, right_only |-> EmptyFrame]
        ELSE IF \E k \in DOMAIN on : MergeDtypeError(left, right, on[k])
        THEN [ok |-> FALSE, exc |-> "ValueError",
              left_only |-> EmptyFrame, right_only |-> EmptyFrame]
        ELSE LET LKey(row) == KeyOf(left, row, on)
                 RKey(row) == KeyOf(right, row, on)
                 lonly == SelectSeq(left.rows, LAMBDA row : LKey(row) \notin Keys(right, on))
                 ronly == SelectSeq(right.rows, LAMBDA row : RKey(row) \notin Keys(left, on))
                 lsorted == SortByKey(lonly, LKey)
                 rsorted == SortByKey(ronly, RKey)
                 labels == MergedColumns(left, right, on)
             IN  [ok |-> TRUE, exc |-> "",
                  left_only |-> [cols |-> labels,
                                 rows |-> [i \in DOMAIN lsorted |->
                                             LeftOnlyRow(left, right, on, lsorted[i])]],
                  right_only |-> [cols |-> labels,
                                  rows |-> [i \in DOMAIN rsorted |->
                                              RightOnlyRow(left, right, on, rsorted[i])]]]

----------------------------------------------------------------------------
(* compare *)

Returned(v) == [raised |-> FALSE, exc |-> "", value |-> v]

Raised(e) == [raised |-> TRUE, exc |-> e, value |-> <<>>]

\* datacompy_report: '' is EmptyReport; the other texts by their parts
EmptyReport == [kind |-> "empty"]

\* f"Error in comparison: {str(e)}"
ErrorReport(e) == [kind |-> "error_in_comparison", exc |-> e]

\* f"Comparison failed: {str(e)}"
FailedReport(e) == [kind |-> "comparison_failed", exc |-> e]

\* mutant: the report lists every join column, with zero counts for one
\* that has no distinct-value entry
ComparisonReportEveryJoin(source, target, jc, lonly, ronly, dv) ==
    [kind |-> "comparison_report",
     source_rows |-> NRows(source),
     target_rows |-> NRows(target),
     unmatched_in_source |-> NRows(lonly),
     unmatched_in_target |-> NRows(ronly),
     distribution_header |-> DOMAIN dv # {},
     distribution |-> [i \in DOMAIN jc |->
                         [col |-> jc[i],
                          source_unique |-> IF jc[i] \in DOMAIN dv
                                            THEN dv[jc[i]].source_count ELSE 0,
                          target_unique |-> IF jc[i] \in DOMAIN dv
                                            THEN dv[jc[i]].target_count ELSE 0]]]

\* the report of lines 149-166
ComparisonReport(source, target, jc, lonly, ronly, dv) ==
    LET listed == IF DOMAIN dv = {} THEN <<>>
                  ELSE SelectSeq(jc, LAMBDA c : c \in DOMAIN dv)
    IN  [kind |-> "comparison_report",
         source_rows |-> NRows(source),
         target_rows |-> NRows(target),
         unmatched_in_source |-> NRows(lonly),
         unmatched_in_target |-> NRows(ronly),
         distribution_header |-> DOMAIN dv # {},
         distribution |-> [i \in DOMAIN listed |->
                             [col |-> listed[i],
                              source_unique |-> dv[listed[i]].source_count,
                              target_unique |-> dv[listed[i]].target_count]]]

\* mutant: the failure dict keeps the row counts of a partial result
FailureResultPartial(e) ==
    [match_status |-> FALSE, error |-> e, datacompy_report |-> FailedReport(e),
     row_counts |-> [source_name |-> "Source", target_name |-> "Target",
                     source_count |-> 0, target_count |-> 0]]

\* the dict of lines 183-187
FailureResult(e) ==
    [match_status |-> FALSE, error |-> e, datacompy_report |-> FailedReport(e)]

\* mutant: match_status forgets the unmatched rows
DetailedComparisonCountsOnly(results, source, target, jc) ==
    LET mg == Merge(source, target, jc)
    IN  IF ~mg.ok
        THEN [results EXCEPT !.datacompy_report = ErrorReport(mg.exc),
                             !.match_status = FALSE]
        ELSE [results EXCEPT
                !.source_unmatched_rows = mg.left_only,
                !.target_unmatched_rows = mg.right_only,
                !.datacompy_report =
                    ComparisonReport(source, target, jc, mg.left_only, mg.right_only,
                                     results.distinct_values),
                !.match_status = results.columns_match /\ results.rows_match]

\* mutant: match_status forgets the unmatched target rows
DetailedComparisonSourceOnly(results, source, target, jc) ==
    LET mg == Merge(source, target, jc)
    IN  IF ~mg.ok
        THEN [results EXCEPT !.datacompy_report = ErrorReport(mg.exc),
                             !.match_status = FALSE]
        ELSE [results EXCEPT
                !.source_unmatched_rows = mg.left_only,
                !.target_unmatched_rows = mg.right_only,
                !.datacompy_report =
                    ComparisonReport(source, target, jc, mg.left_only, mg.right_only,
                                     results.distinct_values),
                !.match_status = /\ results.columns_match
                                 /\ results.rows_match
                                 /\ NRows(mg.left_only) = 0]

\* mutant: a failed reconciliation drops the statistics computed before it
DetailedComparisonDropping(results, source, target, jc) ==
    LET mg == Merge(source, target, jc)
    IN  IF ~mg.ok
        THEN [results EXCEPT !.datacompy_report = ErrorReport(mg.exc),
                             !.match_status = FALSE,
                             !.column_summary = <<>>,
                             !.distinct_values = <<>>]
        ELSE [results EXCEPT
                !.source_unmatched_rows = mg.left_only,
                !.target_unmatched_rows = mg.right_only,
                !.datacompy_report =
                    ComparisonReport(source, target, jc, mg.left_only, mg.right_only,
                                     results.distinct_values),
                !.match_status = /\ results.columns_match
                                 /\ results.rows_match
                                 /\ NRows(mg.left_only) = 0
                                 /\ NRows(mg.right_only) = 0]

\* the body of the inner try (lines 143-174) on the results built so far
DetailedComparison(results, source, target, jc) ==
    LET mg == Merge(source, target, jc)
    IN  IF ~mg.ok
        THEN [results EXCEPT !.datacompy_report = ErrorReport(mg.exc),
                             !.match_status = FALSE]
        ELSE [results EXCEPT
                !.source_unmatched_rows = mg.left_only,
                !.target_unmatched_rows = mg.right_only,
                !.datacompy_report =
                    ComparisonReport(source, target, jc, mg.left_only, mg.right_only,
                                     results.distinct_values),
                !.match_status = /\ results.columns_match
                                 /\ results.rows_match
                                 /\ NRows(mg.left_only) = 0
                                 /\ NRows(mg.right_only) = 0]

\* mutant: tables of the same number of columns count as matching
ColumnsMatchByCount(source, target) == Len(source.cols) = Len(target.cols)

\* line 130
ColumnsMatch(source, target) == Range(ColNames(source)) = Range(ColNames(target))

\* mutant: two tables that both hold rows count as matching
RowsMatchNonEmpty(source, target) == (NRows(source) > 0) = (NRows(target) > 0)

\* line 131
RowsMatch(source, target) == NRows(source) = NRows(target)

\* mutant: match_status starts as columns_match AND rows_match, so a
\* comparison without join columns can report a match
CompareBodyOptimistic(sdf, tdf, mp, jc) ==
    LET prep == PrepareDataframes(sdf, tdf, mp)
        source == prep.source
        target == prep.target
        summ == GenerateColumnSummary(source, target, jc)
    IN  IF ~prep.ok THEN Raised(prep.exc)
        ELSE IF ~summ.ok THEN Raised(summ.exc)
        ELSE LET results ==
                     [match_status |-> RowsMatch(source, target)
                                         /\ ColumnsMatch(source, target),
                      rows_match |-> RowsMatch(source, target),
                      columns_match |-> ColumnsMatch(source, target),
                      datacompy_report |-> EmptyReport,
                      source_unmatched_rows |-> EmptyFrame,
                      target_unmatched_rows |-> EmptyFrame,
                      column_summary |-> summ.summary,
                      row_counts |-> [source_name |-> "Source",
                                      target_name |-> "Target",
                                      source_count |-> NRows(source),
                                      target_count |-> NRows(target)],
                      distinct_values |-> GetDistinctValues(sdf, tdf, mp, NoneV)]
             IN  IF Truthy(jc)
                 THEN Returned(DetailedComparison(results, source, target, jc.list))
                 ELSE Returned(results)

\* the body of the outer try (lines 109-180): the dict it returns, or the
\* exception that leaves it
CompareBody(sdf, tdf, mp, jc) ==
    LET prep == PrepareDataframes(sdf, tdf, mp)
        source == prep.source
        target == prep.target
        summ == GenerateColumnSummary(source, target, jc)
    IN  IF ~prep.ok THEN Raised(prep.exc)
        ELSE IF ~summ.ok THEN Raised(summ.exc)
        ELSE LET results ==
                     [match_status |-> FALSE,
                      rows_match |-> RowsMatch(source, target),
                      columns_match |-> ColumnsMatch(source, target),
                      datacompy_report |-> EmptyReport,
                      source_unmatched_rows |-> EmptyFrame,
                      target_unmatched_rows |-> EmptyFrame,
                      column_summary |-> summ.summary,
                      row_counts |-> [source_name |-> "Source",
                                      target_name |-> "Target",
                                      source_count |-> NRows(source),
                                      target_count |-> NRows(target)],
                      distinct_values |-> GetDistinctValues(sdf, tdf, mp, NoneV)]
             IN  IF Truthy(jc)
                 THEN Returned(DetailedComparison(results, source, target, jc.list))
                 ELSE Returned(results)

\* mutant: no outer handler, the exception reaches the caller
CompareUncaught(sdf, tdf, mp, jc) == CompareBody(sdf, tdf, mp, jc)

\* what compare() hands to its caller: the outer handler (lines 181-187) turns
\* every exception into the failure dict
Compare(sdf, tdf, mp, jc) ==
    LET r == CompareBody(sdf, tdf, mp, jc)
    IN  IF r.raised THEN Returned(FailureResult(r.exc)) ELSE r

----------------------------------------------------------------------------
(* the engine as a state machine *)

Outcome(op, arg, r) ==
    [op |-> op, arg |-> arg, raised |-> r.raised, exc |-> r.exc, value |-> r.value]

\* __init__ on the tables sdf and tdf
Constructed(sdf, tdf) ==
    /\ source_df = sdf
    /\ target_df = tdf
    /\ mapping = NoneV
    /\ join_columns = NoneV
    /\ excluded_columns = <<>>
    /\ ret = Outcome("__init__", NoneV, Returned(<<>>))

\* mutant: the call records the mapping it returns
auto_map_columns_recording ==
    /\ ret' = Outcome("auto_map_columns", NoneV,
                      Returned(AutoMapColumns(source_df, target_df)))
    /\ mapping' = Some(AutoMapColumns(source_df, target_df))
    /\ UNCHANGED <<source_df, target_df, join_columns, excluded_columns>>

auto_map_columns ==
    /\ ret' = Outcome("auto_map_columns", NoneV,
                      Returned(AutoMapColumns(source_df, target_df)))
    /\ UNCHANGED <<source_df, target_df, mapping, join_columns, excluded_columns>>

\* line 73 iterates the mapping after lines 71-72 stored both arguments: a
\* None mapping raises TypeError and leaves excluded_columns as it was
set_mapping(m, j) ==
    /\ mapping' = m
    /\ join_columns' = j
    /\ excluded_columns' = IF m.isNone THEN excluded_columns ELSE ExcludedSources(m.list)
    /\ ret' = Outcome("set_mapping", NoneV,
                      IF m.isNone THEN Raised("TypeError") ELSE Returned(<<>>))
    /\ UNCHANGED <<source_df, target_df>>

\* mutant: a comparison uses the mapping up, the next one finds none
compare_consuming ==
    /\ ret' = Outcome("compare", NoneV,
                      Compare(source_df, target_df, mapping, join_columns))
    /\ mapping' = NoneV
    /\ UNCHANGED <<source_df, target_df, join_columns, excluded_columns>>

\* mutant: preparation selects and renames the columns of the engine's own
\* tables
compare_in_place ==
    LET prep == PrepareDataframes(source_df, target_df, mapping)
    IN  /\ ret' = Outcome("compare", NoneV,
                          Compare(source_df, target_df, mapping, join_columns))
        /\ source_df' = IF prep.ok THEN prep.source ELSE source_df
        /\ target_df' = IF prep.ok THEN prep.target ELSE target_df
        /\ UNCHANGED <<mapping, join_columns, excluded_columns>>

compare ==
    /\ ret' = Outcome("compare", NoneV,
                      Compare(source_df, target_df, mapping, join_columns))
    /\ UNCHANGED <<source_df, target_df, mapping, join_columns, excluded_columns>>

get_distinct_values(columns) ==
    /\ ret' = Outcome("get_distinct_values", columns,
                      Returned(GetDistinctValues(source_df, target_df, mapping, columns)))
    /\ UNCHANGED <<source_df, target_df, mapping, join_columns, excluded_columns>>

----------------------------------------------------------------------------
(* tables and mapping entries of the bounded inputs *)

NameA == <<"a">>

NameB == <<"b">>

\* column a holds integers, any other column strings
DtypeOf(name) == IF name = NameA THEN "int64" ELSE "object"

ColsOf(names) == [i \in DOMAIN names |-> [name |-> names[i], dtype |-> DtypeOf(names[i])]]

\* the rows over cols whose cells are drawn from Cells(dtype)
RowsOver(cols, Cells(_)) ==
    {row \in [DOMAIN cols -> UNION {Cells(cols[i].dtype) : i \in DOMAIN cols}] :
        \A i \in DOMAIN cols : row[i] \in Cells(cols[i].dtype)}

\* the tables over cols with at most n rows
TablesOver(cols, Cells(_), n) ==
    {[cols |-> cols, rows |-> rs] : rs \in SeqsUpTo(RowsOver(cols, Cells), n)}

Kept(src, tgt) == Entry(src, tgt, FALSE, DtypeOf(src), FALSE)

Dropped(src) == Entry(src, src, FALSE, DtypeOf(src), TRUE)

----------------------------------------------------------------------------
(* Spec: every operation, over small tables and every mapping of up to      *)
(* MaxMapLen entries                                                        *)

\* rows per table
MaxRows == 1

\* entries per mapping
MaxMapLen == 2

Schemas == {<<NameA>>, <<NameA, NameB>>}

\* the source cells are fixed, the target cells agree with them or differ
SourceCells(dtype) == IF dtype = "int64" THEN {IntV(1)} ELSE {StrV("x")}

TargetCells(dtype) ==
    IF dtype = "int64" THEN {IntV(1), IntV(2)} ELSE {StrV("x"), StrV("y")}

SourceTables == UNION {TablesOver(ColsOf(names), SourceCells, MaxRows) : names \in Schemas}

TargetTables == UNION {TablesOver(ColsOf(names), TargetCells, MaxRows) : names \in Schemas}

\* a kept entry names a target or leaves it empty (unmapped), an excluded
\* entry names the target of its own name
MappingEntries ==
    {Kept(src, tgt) : src \in {NameA, NameB}, tgt \in {NameA, NameB, <<>>}}
    \cup {Dropped(src) : src \in {NameA, NameB}}

Mappings == {NoneV} \cup {Some(m) : m \in SeqsUpTo(MappingEntries, MaxMapLen)}

JoinLists == {NoneV, Some(<<>>), Some(<<NameA>>), Some(<<NameB>>)}

ColumnArgs == {NoneV, Some(<<NameA, NameB>>)}

Init == \E sdf \in SourceTables, tdf \in TargetTables : Constructed(sdf, tdf)

Next ==
    \/ auto_map_columns
    \/ \E m \in Mappings, j \in JoinLists : set_mapping(m, j)
    \/ compare
    \/ \E columns \in ColumnArgs : get_distinct_values(columns)

Spec == Init /\ [][Next]_vars

----------------------------------------------------------------------------
(* SpecRows: row reconciliation, over tables of up to MaxKeyRows rows with  *)
(* repeated and missing keys, under a few mappings                          *)

MaxKeyRows == 2

RowTables == TablesOver(ColsOf(<<NameA, NameB>>), TargetCells, MaxKeyRows)

RowMappings ==
    {Some(<<Kept(NameA, NameA), Kept(NameB, NameB)>>),
     Some(<<Kept(NameB, NameB), Dropped(NameA)>>),
     Some(<<Kept(NameA, NameB)>>)}

RowJoinLists == {Some(<<NameA>>), Some(<<NameB>>), Some(<<NameB, NameA>>)}

InitRows == \E sdf \in RowTables, tdf \in RowTables : Constructed(sdf, tdf)

NextRows ==
    \/ auto_map_columns
    \/ \E m \in RowMappings, j \in RowJoinLists : set_mapping(m, j)
    \/ compare
    \/ \E columns \in ColumnArgs : get_distinct_values(columns)

SpecRows == InitRows /\ [][NextRows]_vars

----------------------------------------------------------------------------
(* SpecMap: auto_map_columns over column names of up to MaxNameLen          *)
(* characters                                                               *)

MaxNameLen == 2

\* columns per table
MaxMapCols == 2

MapChars == {"a", "A", "_"}

MapNames == SeqsUpTo(MapChars, MaxNameLen)

\* the tables without rows whose column names are distinct
MapTables ==
    {[cols |-> ColsOf(names), rows |-> <<>>] :
        names \in {q \in SeqsUpTo(MapNames, MaxMapCols) : Distinct(q)}}

InitMap == \E sdf \in MapTables, tdf \in MapTables : Constructed(sdf, tdf)

NextMap == auto_map_columns

SpecMap == InitMap /\ [][NextMap]_vars

----------------------------------------------------------------------------
(* SpecCells: a key column b and one other column per table; the target's   *)
(* other column is the integer column a or the string column c              *)

NameC == <<"c">>

MaxCellRows == 2

CellSourceTables == TablesOver(ColsOf(<<NameB, NameA>>), TargetCells, MaxCellRows)

CellTargetTables ==
    TablesOver(ColsOf(<<NameB, NameA>>), TargetCells, MaxCellRows)
    \cup TablesOver(ColsOf(<<NameB, NameC>>), TargetCells, MaxCellRows)

CellMappings ==
    {Some(<<Kept(NameB, NameB), Kept(NameA, NameA)>>),
     Some(<<Kept(NameB, NameB), Kept(NameA, NameC)>>)}

CellJoinLists == {Some(<<NameB>>)}

InitCells == \E sdf \in CellSourceTables, tdf \in CellTargetTables : Constructed(sdf, tdf)

NextCells ==
    \/ auto_map_columns
    \/ \E m \in CellMappings, j \in CellJoinLists : set_mapping(m, j)
    \/ compare
    \/ \E columns \in ColumnArgs : get_distinct_values(columns)

SpecCells == InitCells /\ [][NextCells]_vars

----------------------------------------------------------------------------
(* SpecStats: column statistics over tables with null cells                *)

MaxStatRows == 2

StatCells(dtype) ==
    IF dtype = "int64" THEN {IntV(1), IntV(2), NullV} ELSE {StrV("x"), NullV}

\* the dtype pandas gives the column: an integer column that holds a
\* missing value is float64
InferredDtype(dtype, cells) ==
    IF dtype = "int64" /\ \E r \in DOMAIN cells : cells[r] = NullV
    THEN "float64" ELSE dtype

Inferred(df) ==
    [cols |-> [i \in DOMAIN df.cols |->
                 [name |-> df.cols[i].name,
                  dtype |-> InferredDtype(df.cols[i].dtype, ColValues(df, i))]],
     rows |-> df.rows]

StatTables ==
    {Inferred(df) : df \in TablesOver(ColsOf(<<NameB, NameA>>), StatCells, MaxStatRows)}

StatMappings ==
    {Some(<<Kept(NameB, NameB), Kept(NameA, NameA)>>),
     Some(<<Kept(NameB, NameB), Dropped(NameA)>>)}

StatJoinLists == {Some(<<>>), Some(<<NameA>>), Some(<<NameB>>)}

InitStats == \E sdf \in StatTables, tdf \in StatTables : Constructed(sdf, tdf)

NextStats ==
    \/ auto_map_columns
    \/ \E m \in StatMappings, j \in StatJoinLists : set_mapping(m, j)
    \/ compare
    \/ \E columns \in ColumnArgs : get_distinct_values(columns)

SpecStats == InitStats /\ [][NextStats]_vars

----------------------------------------------------------------------------
(* SpecDistinct: get_distinct_values over a three-column source, under a    *)
(* mapping that names one target column twice, one that names nothing       *)
(* twice, one that names one source column twice and one that names a      *)
(* target column the target table lacks                                     *)

MaxDistinctRows == 1

DistinctSourceTables ==
    TablesOver(ColsOf(<<NameB, NameA, NameC>>), TargetCells, MaxDistinctRows)

DistinctTargetTables == TablesOver(ColsOf(<<NameB, NameA>>), TargetCells, MaxDistinctRows)

DistinctMappings ==
    {Some(<<Kept(NameB, NameB), Kept(NameA, NameA), Kept(NameC, NameA)>>),
     Some(<<Kept(NameB, NameB), Kept(NameA, NameA)>>),
     Some(<<Kept(NameB, NameB), Kept(NameB, NameB), Kept(NameA, NameA)>>),
     Some(<<Kept(NameB, NameC)>>)}

DistinctArgs ==
    {NoneV, Some(<<>>), Some(<<NameC>>), Some(<<NameB, NameC>>), Some(<<NameC, NameB>>),
     Some(<<NameA, NameC, NameB>>), Some(<<NameB, NameA>>)}

InitDistinct ==
    \E sdf \in DistinctSourceTables, tdf \in DistinctTargetTables : Constructed(sdf, tdf)

NextDistinct ==
    \/ auto_map_columns
    \/ \E m \in DistinctMappings : set_mapping(m, Some(<<>>))
    \/ compare
    \/ \E columns \in DistinctArgs : get_distinct_values(columns)

SpecDistinct == InitDistinct /\ [][NextDistinct]_vars

----------------------------------------------------------------------------
(* what the claims speak about *)

\* the preparation compare() and get_distinct_values() run in this state
Prep == PrepareDataframes(source_df, target_df, mapping)

\* compare() was the last call; no call changes the engine's inputs, so Prep
\* is the preparation that call ran
Compared == ret.op = "compare" /\ ~ret.raised

\* the result is the dict of lines 112-127 (not the failure dict)
FullResult == Compared /\ "rows_match" \in DOMAIN ret.value

\* the result is the failure dict of lines 183-187
TotalFailure == Compared /\ "error" \in DOMAIN ret.value

\* the inner try ran to its end: the report is the one of lines 149-166
Reconciled == FullResult /\ ret.value.datacompy_report.kind = "comparison_report"

NoUnmatchedRows ==
    /\ NRows(ret.value.source_unmatched_rows) = 0
    /\ NRows(ret.value.target_unmatched_rows) = 0

KeptEntries == SelectSeq(mapping.list, NotExcluded)

\* C1 as claimed: after a successful preparation match_status equals
\* columns_match AND rows_match AND both unmatched tables empty, for every
\* mapping and every join-column list, the empty one included
C1_Original ==
    FullResult =>
        ret.value.match_status =
            (ret.value.columns_match /\ ret.value.rows_match /\ NoUnmatchedRows)

\* C1 amended: match_status equals the conjunction when the join-column list
\* is non-empty and reconciliation ran to its end; it is false when the list
\* is empty or unset or reconciliation failed, whatever the conjunction
C1_MatchStatus ==
    FullResult =>
        /\ Reconciled =>
             ret.value.match_status =
                 (ret.value.columns_match /\ ret.value.rows_match /\ NoUnmatchedRows)
        /\ ~Reconciled => ~ret.value.match_status
        /\ Reconciled => Truthy(join_columns)

\* a reconciled comparison of equal tables with rows: every conjunct true
C1_Witness == Reconciled /\ ret.value.match_status /\ NRows(source_df) > 0

\* no two kept entries name the same source column or the same target column
KeptDistinct ==
    /\ Distinct([i \in DOMAIN KeptEntries |-> KeptEntries[i].source])
    /\ Distinct([i \in DOMAIN KeptEntries |-> KeptEntries[i].target])

\* C2 as claimed: with a mapping that preparation accepts and that pairs the
\* kept columns one to one, and an empty join-column list, compare() returns
\* match_status false, an empty report, empty unmatched tables, a
\* column_summary entry for every prepared column and the row counts of the
\* prepared tables
C2_EmptyJoin ==
    (Compared /\ Prep.ok /\ KeptDistinct /\ join_columns = Some(<<>>)) =>
        /\ FullResult
        /\ ~ret.value.match_status
        /\ ret.value.datacompy_report = EmptyReport
        /\ ret.value.source_unmatched_rows = EmptyFrame
        /\ ret.value.target_unmatched_rows = EmptyFrame
        /\ DOMAIN ret.value.column_summary = Range(ColNames(Prep.source))
        /\ ret.value.row_counts.source_count = NRows(Prep.source)
        /\ ret.value.row_counts.target_count = NRows(Prep.target)

\* the cell of merged row m that came from column c of one side: the label c
\* kept its name, or got the side's suffix
MergedCell(labels, m, c, suffix) ==
    LET Named(l) == l = c
        Suffixed(l) == l = c \o suffix
    IN  IF FirstIndex(labels, Named) # 0 THEN m[FirstIndex(labels, Named)]
        ELSE m[FirstIndex(labels, Suffixed)]

\* the rows of an unmatched table, each cut back to the columns of df
SideRows(unmatched, df, suffix) ==
    [r \in DOMAIN unmatched.rows |->
        [i \in DOMAIN df.cols |->
            MergedCell(unmatched.cols, unmatched.rows[r], df.cols[i].name, suffix)]]

Count(q, x) == Cardinality({i \in DOMAIN q : q[i] = x})

\* p and q hold the same rows the same number of times
SameBag(p, q) == Len(p) = Len(q) /\ \A i \in DOMAIN p : Count(p, p[i]) = Count(q, p[i])

\* the rows of df whose join key is the key of no row of other
RowsWithoutPartner(df, other, on) ==
    SelectSeq(df.rows, LAMBDA row : KeyOf(df, row, on) \notin Keys(other, on))

JoinColumnsInBoth ==
    /\ Prep.ok /\ Truthy(join_columns)
    /\ \A k \in DOMAIN join_columns.list :
          HasCol(Prep.source, join_columns.list[k]) /\ HasCol(Prep.target, join_columns.list[k])

\* the unmatched tables hold exactly the rows without a partner, each as often
\* as its table holds it
UnmatchedComplete ==
    /\ FullResult
    /\ SameBag(SideRows(ret.value.source_unmatched_rows, Prep.source, <<"_", "x">>),
               RowsWithoutPartner(Prep.source, Prep.target, join_columns.list))
    /\ SameBag(SideRows(ret.value.target_unmatched_rows, Prep.target, <<"_", "y">>),
               RowsWithoutPartner(Prep.target, Prep.source, join_columns.list))

\* C3 as claimed: with non-empty join columns present in both prepared tables,
\* source_unmatched_rows holds every source row whose key is in no target row,
\* once per row, target_unmatched_rows likewise, and neither holds a row whose
\* key is on both sides
C3_Reconciliation == (Compared /\ JoinColumnsInBoth) => UnmatchedComplete

\* a failure inside compare(): the failure dict, or the report of a failed
\* reconciliation
FailedInside ==
    \/ TotalFailure
    \/ (FullResult /\ ret.value.datacompy_report.kind = "error_in_comparison")

\* C4: compare() never raises; in every engine state it returns a dict with a
\* match_status, which is false whenever something failed inside
C4_NeverRaises ==
    ret.op = "compare" =>
        /\ ~ret.raised
        /\ "match_status" \in DOMAIN ret.value
        /\ FailedInside => ~ret.value.match_status
        /\ (~Prep.ok \/ (Truthy(join_columns) /\ ~JoinColumnsInBoth)) => FailedInside

\* compare() on a recorded mapping with join_columns unset: the membership
\* test of line 204 raised, and the caller got the failure dict
C4_Witness ==
    /\ TotalFailure /\ Truthy(mapping) /\ join_columns.isNone
    /\ ret.value.error = "TypeError"

\* C5: when preparation fails, the result has exactly match_status (false),
\* error and datacompy_report (the failure message), and nothing else
C5_OnlyFailureFields ==
    (ret.op = "compare" /\ ~Prep.ok) =>
        /\ ~ret.raised
        /\ DOMAIN ret.value = {"match_status", "error", "datacompy_report"}
        /\ ~ret.value.match_status
        /\ ret.value.error = Prep.exc
        /\ ret.value.datacompy_report = FailedReport(Prep.exc)

\* compare() on a mapping that names a missing column
C5_Witness == TotalFailure /\ ~Prep.ok /\ Prep.exc = "KeyError"

\* C6: without a recorded mapping (None, or an empty list) preparation raises
\* ValueError, and compare() returns the failure dict for it, never a
\* comparison of the raw tables
C6_MappingRequired ==
    ~Truthy(mapping) =>
        /\ Prep = PrepFail("ValueError")
        /\ ret.op = "compare" => (~ret.raised /\ ret.value = FailureResult("ValueError"))

\* compare() on a freshly constructed engine
C6_Witness ==
    /\ ret.op = "compare" /\ mapping.isNone /\ join_columns.isNone
    /\ NRows(source_df) > 0 /\ NRows(target_df) > 0

\* a kept entry names a column its table does not have
KeptColumnMissing ==
    \E i \in DOMAIN KeptEntries :
        \/ ~HasCol(source_df, KeptEntries[i].source)
        \/ ~HasCol(target_df, KeptEntries[i].target)

\* an excluded entry names a column its table does not have
ExcludedColumnMissing ==
    \E i \in DOMAIN mapping.list :
        /\ mapping.list[i].exclude
        /\ \/ ~HasCol(source_df, mapping.list[i].source)
           \/ ~HasCol(target_df, mapping.list[i].target)

\* C7: preparation raises KeyError exactly when a kept entry names a missing
\* source or target column; the columns of excluded entries are never looked up
C7_ColumnNotFound ==
    Truthy(mapping) =>
        /\ KeptColumnMissing => Prep = PrepFail("KeyError")
        /\ ~KeptColumnMissing => Prep.ok
        /\ (ExcludedColumnMissing /\ ~KeptColumnMissing) => Prep.ok
        /\ (ret.op = "compare" /\ KeptColumnMissing) =>
              (~ret.raised /\ ret.value = FailureResult("KeyError"))

\* compare() on a mapping whose kept entry names a missing column, beside an
\* excluded entry
C7_Witness ==
    /\ TotalFailure /\ Truthy(mapping) /\ KeptColumnMissing
    /\ \E i \in DOMAIN mapping.list : mapping.list[i].exclude

\* the columns the mapping excludes: named by an excluded entry and by no
\* kept one
ExcludedOnly ==
    {mapping.list[i].source : i \in {j \in DOMAIN mapping.list : mapping.list[j].exclude}}
    \ {KeptEntries[i].source : i \in DOMAIN KeptEntries}

\* the labels of an unmatched table that stem from column c
StemsFrom(label, c) == label \in {c, c \o <<"_", "x">>, c \o <<"_", "y">>}

\* C8: no excluded column is a key of column_summary or of distinct_values
\* (also when get_distinct_values is given a list naming it), or a column of
\* either unmatched table
C8_Exclusion ==
    Truthy(mapping) =>
        /\ FullResult =>
            /\ DOMAIN ret.value.column_summary \cap ExcludedOnly = {}
            /\ DOMAIN ret.value.distinct_values \cap ExcludedOnly = {}
            /\ \A c \in ExcludedOnly :
                  /\ \A i \in DOMAIN ret.value.source_unmatched_rows.cols :
                        ~StemsFrom(ret.value.source_unmatched_rows.cols[i], c)
                  /\ \A i \in DOMAIN ret.value.target_unmatched_rows.cols :
                        ~StemsFrom(ret.value.target_unmatched_rows.cols[i], c)
        /\ ret.op = "get_distinct_values" => DOMAIN ret.value \cap ExcludedOnly = {}

\* a reconciled comparison that excludes a column both tables have, with a
\* summary entry, a distinct_values entry and unmatched rows for the kept one
C8_Witness ==
    /\ Reconciled
    /\ \E c \in ExcludedOnly : HasCol(source_df, c) /\ HasCol(target_df, c)
    /\ NRows(ret.value.source_unmatched_rows) > 0
    /\ DOMAIN ret.value.distinct_values # {}

\* C9 as claimed: a source column whose name is among the target column names
\* is mapped to that name, the empty name included
C9_ExactMatch ==
    ret.op = "auto_map_columns" =>
        \A i \in DOMAIN ret.value :
            (\E k \in DOMAIN target_df.cols : target_df.cols[k].name = ret.value[i].source)
                => ret.value[i].target = ret.value[i].source

\* the target the four-step preference picks for s_col
PreferredTarget(s_col, target_cols) ==
    LET SameLower(col) == Lower(col) = Lower(s_col)
        SameClean(col) == Clean(col) = Clean(s_col)
    IN  IF \E k \in DOMAIN target_cols : target_cols[k] = s_col THEN s_col
        ELSE IF FirstIndex(target_cols, SameLower) # 0
        THEN target_cols[FirstIndex(target_cols, SameLower)]
        ELSE IF FirstIndex(target_cols, SameClean) # 0
        THEN target_cols[FirstIndex(target_cols, SameClean)]
        ELSE <<>>

\* C10 as claimed: each entry's target is the exact name, else the first
\* target column equal ignoring case, else the first equal after removing the
\* non-alphanumeric characters and lowercasing, else the empty string
C10_Preference ==
    ret.op = "auto_map_columns" =>
        \A i \in DOMAIN ret.value :
            ret.value[i].target = PreferredTarget(ret.value[i].source, ColNames(target_df))

\* C11: auto_map_columns returns one entry per source column, in source
\* column order, with that column's name as source, join and exclude false
\* and the column's dtype name as data_type, whatever the target columns are
C11_OneEntryPerColumn ==
    ret.op = "auto_map_columns" =>
        /\ ~ret.raised
        /\ Len(ret.value) = Len(source_df.cols)
        /\ \A i \in DOMAIN ret.value :
              /\ ret.value[i].source = source_df.cols[i].name
              /\ ~ret.value[i].join
              /\ ~ret.value[i].exclude
              /\ ret.value[i].data_type = source_df.cols[i].dtype

\* a mapping of two source columns, one without a match
C11_Witness ==
    /\ ret.op = "auto_map_columns" /\ Len(ret.value) = 2
    /\ ret.value[1].target = <<>>
    /\ ret.value[2].target # <<>>
    /\ ret.value[1].data_type # ret.value[2].data_type

\* C12: a call of auto_map_columns returns the mapping computed from the two
\* tables alone, whatever was called before, and changes neither the
\* engine's mapping, join_columns, excluded_columns nor its tables
C12_Pure ==
    [][ret'.op = "auto_map_columns" =>
          /\ ~ret'.raised
          /\ ret'.value = AutoMapColumns(source_df, target_df)
          /\ UNCHANGED <<source_df, target_df, mapping, join_columns, excluded_columns>>]_vars

\* auto_map_columns called on an engine that holds a mapping other than the
\* one it returns
C12_Witness ==
    /\ ret.op = "auto_map_columns" /\ Truthy(mapping) /\ Truthy(join_columns)
    /\ excluded_columns # <<>>
    /\ mapping.list # ret.value

\* C13: in every result that carries row_counts, rows_match is true exactly
\* when row_counts.source_count equals row_counts.target_count
C13_RowCountIdentity ==
    (Compared /\ "row_counts" \in DOMAIN ret.value) =>
        /\ ret.value.rows_match =
              (ret.value.row_counts.source_count = ret.value.row_counts.target_count)
        /\ ret.value.row_counts.source_count = NRows(source_df)
        /\ ret.value.row_counts.target_count = NRows(target_df)

\* a result for tables of one and two rows
C13_Witness ==
    /\ FullResult /\ ~ret.value.rows_match
    /\ ret.value.row_counts.source_count = 1
    /\ ret.value.row_counts.target_count = 2

\* C14: in every full result, columns_match is true exactly when the prepared
\* tables have the same set of column names
C14_ColumnsMatch ==
    FullResult =>
        ret.value.columns_match =
            (\A c \in Range(ColNames(Prep.source)) \cup Range(ColNames(Prep.target)) :
                HasCol(Prep.source, c) /\ HasCol(Prep.target, c))

\* prepared tables of two columns each whose names differ: two source
\* columns were mapped to one target column
C14_Witness ==
    /\ FullResult /\ ~ret.value.columns_match
    /\ Len(Prep.source.cols) = 2 /\ Len(Prep.target.cols) = 2

\* C15: no call changes the source or the target table; after any sequence
\* of calls both are the tables the engine was constructed on
C15_TablesUnchanged == [][source_df' = source_df /\ target_df' = target_df]_vars

\* a comparison whose preparation dropped a source column and renamed a
\* target column, on tables with rows
C15_Witness ==
    /\ FullResult
    /\ NRows(source_df) > 0 /\ NRows(target_df) > 0
    /\ Len(Prep.source.cols) < Len(source_df.cols)
    /\ \E i \in DOMAIN KeptEntries : KeptEntries[i].target # KeptEntries[i].source

\* C16 as claimed: after a successful preparation both prepared tables have
\* the column names of the non-excluded mapping entries' sources, also when
\* two of those entries name the same target column
C16_SameColumnNames ==
    (Compared /\ Prep.ok) =>
        /\ ColNames(Prep.source) = [i \in DOMAIN KeptEntries |-> KeptEntries[i].source]
        /\ ColNames(Prep.target) = ColNames(Prep.source)

\* the mapping pairs every source column with the target column of its name
\* and excludes none
IdentityMapping ==
    /\ Truthy(mapping)
    /\ Distinct([i \in DOMAIN mapping.list |-> mapping.list[i].source])
    /\ {mapping.list[i].source : i \in DOMAIN mapping.list} = Range(ColNames(source_df))
    /\ \A i \in DOMAIN mapping.list :
          mapping.list[i].target = mapping.list[i].source /\ ~mapping.list[i].exclude

\* the join-column list is a non-empty list of source columns
JoinOnColumns ==
    /\ Truthy(join_columns)
    /\ \A k \in DOMAIN join_columns.list : HasCol(source_df, join_columns.list[k])

\* C17: identical tables under the identity mapping and a non-empty list of
\* join columns compare with both unmatched tables empty and match_status
\* true, also when a key repeats within the table
C17_IdenticalTables ==
    (Compared /\ source_df = target_df /\ IdentityMapping /\ JoinOnColumns) =>
        /\ Reconciled
        /\ NoUnmatchedRows
        /\ ret.value.match_status

\* identical tables of two different rows with the same key, joined on it
C17_Witness ==
    /\ Compared /\ source_df = target_df /\ IdentityMapping
    /\ join_columns = Some(<<NameA>>)
    /\ NRows(source_df) = 2
    /\ source_df.rows[1][1] = source_df.rows[2][1]
    /\ source_df.rows[1][2] # source_df.rows[2][2]
    /\ ret.value.match_status

\* some row of one prepared table has a join key that no row of the other has
SomeRowWithoutPartner ==
    /\ JoinColumnsInBoth
    /\ \/ RowsWithoutPartner(Prep.source, Prep.target, join_columns.list) # <<>>
       \/ RowsWithoutPartner(Prep.target, Prep.source, join_columns.list) # <<>>

\* C18: when a source row's key is absent from the target, or a target row's
\* key from the source, match_status is false, also for tables of equal row
\* counts and equal columns
C18_UnmatchedNeverMatch ==
    (Compared /\ SomeRowWithoutPartner) => ~ret.value.match_status

\* Scenario A in small: equal row counts, equal columns, one row without a
\* partner on the target side only
C18_Witness ==
    /\ Reconciled /\ SomeRowWithoutPartner
    /\ ret.value.rows_match /\ ret.value.columns_match
    /\ NRows(ret.value.source_unmatched_rows) = 0
    /\ NRows(ret.value.target_unmatched_rows) = 1
    /\ ~ret.value.match_status

\* the join keys of the rows of an unmatched table, in its row order
UnmatchedKeys(frame, on) ==
    [r \in DOMAIN frame.rows |->
        [k \in DOMAIN on |-> MergedCell(frame.cols, frame.rows[r], on[k], <<>>)]]

\* what row matching says of a result: match_status and the keys of the
\* unmatched rows of either side
MatchingOf(result) ==
    [match_status |-> result.match_status,
     source_keys |-> IF "source_unmatched_rows" \in DOMAIN result
                     THEN UnmatchedKeys(result.source_unmatched_rows, join_columns.list)
                     ELSE <<>>,
     target_keys |-> IF "target_unmatched_rows" \in DOMAIN result
                     THEN UnmatchedKeys(result.target_unmatched_rows, join_columns.list)
                     ELSE <<>>]

\* the tables that differ from df in one cell of a column for which NonKey
\* holds, the new value being of the column's type
CellVariants(df, NonKey(_)) ==
    UNION {UNION {{[df EXCEPT !.rows[r][i] = v] : v \in TargetCells(df.cols[i].dtype)} :
                    i \in {j \in DOMAIN df.cols : NonKey(df.cols[j].name)}} :
             r \in DOMAIN df.rows}

\* no join column is this source column
NonKeySource(name) == name \notin Range(join_columns.list)

\* no join column is what this target column is renamed to
NonKeyTarget(name) == RenameLabel(name, mapping.list) \notin Range(join_columns.list)

\* both prepared tables have the same number of rows and the same set of
\* join keys, under a mapping that pairs the kept columns one to one
SameKeys ==
    /\ JoinColumnsInBoth /\ KeptDistinct
    /\ ColumnsMatch(Prep.source, Prep.target)
    /\ NRows(Prep.source) = NRows(Prep.target)
    /\ Keys(Prep.source, join_columns.list) = Keys(Prep.target, join_columns.list)

\* C19 as claimed: changing one cell of a non-key column of either table
\* changes neither match_status nor which keys the unmatched tables hold, and
\* tables of equal row counts and equal key sets compare with match_status
\* true whatever their non-key cells are
C19_KeysOnly ==
    Compared =>
        /\ \A sdf \in CellVariants(source_df, NonKeySource) :
              MatchingOf(Compare(sdf, target_df, mapping, join_columns).value)
                  = MatchingOf(ret.value)
        /\ \A tdf \in CellVariants(target_df, NonKeyTarget) :
              MatchingOf(Compare(source_df, tdf, mapping, join_columns).value)
                  = MatchingOf(ret.value)
        /\ SameKeys => ret.value.match_status

\* what compare() returns on a newly constructed engine over the same tables
\* after the one call set_mapping(m, j) (or after none, with m and j None)
FreshCompare(m, j) == Compare(source_df, target_df, m, j).value

\* C20: a call of compare() returns what a fresh engine over the same tables
\* returns after the most recent set_mapping alone, and leaves mapping and
\* join_columns as that set_mapping stored them; only set_mapping changes
\* them, so two consecutive calls return equal results
C20_LastMappingOnly ==
    [][(ret'.op = "compare" =>
            /\ ~ret'.raised
            /\ ret'.value = FreshCompare(mapping, join_columns)
            /\ UNCHANGED <<mapping, join_columns>>)
       /\ (ret'.op # "set_mapping" => UNCHANGED <<mapping, join_columns>>)]_vars

\* compare() after set_mapping(None, ...) on an engine that still holds the
\* excluded columns of an earlier mapping
C20_Witness ==
    /\ Compared /\ mapping.isNone /\ Truthy(join_columns)
    /\ excluded_columns # <<>>
    /\ ret.value = FailureResult("ValueError")

\* compare() returned the full result and nothing failed on the way: the
\* reconciliation ran to its end, or there was no join column to run it on
Successful == FullResult /\ ret.value.datacompy_report.kind # "error_in_comparison"

\* the retained (prepared source) columns that are not numeric
NonNumericRetained ==
    {Prep.source.cols[i].name :
        i \in {j \in DOMAIN Prep.source.cols : ~IsNumeric(Prep.source.cols[j].dtype)}}

\* the non-null cells of the column named c
CellsOf(df, c) == NonNull(ColValues(df, ColIndex(df, c)))

\* h is the histogram of the cells q: every value of q with the number of
\* its occurrences
IsHistogram(h, q) ==
    /\ DOMAIN h = Range(q)
    /\ \A v \in DOMAIN h : h[v] = Count(q, v)

\* C21: after a successful compare() distinct_values has an entry for
\* exactly the retained non-numeric columns, join columns included; the
\* entry holds each side's histogram and number of distinct values, and
\* matching says that both sides have the same set of values
C21_DistinctValues ==
    Successful =>
        /\ DOMAIN ret.value.distinct_values = NonNumericRetained
        /\ \A c \in DOMAIN ret.value.distinct_values :
              LET e == ret.value.distinct_values[c]
                  sv == CellsOf(Prep.source, c)
                  tv == CellsOf(Prep.target, c)
              IN  /\ IsHistogram(e.source_values, sv)
                  /\ IsHistogram(e.target_values, tv)
                  /\ e.source_count = Cardinality(Range(sv))
                  /\ e.target_count = Cardinality(Range(tv))
                  /\ e.matching = (Range(sv) = Range(tv))

\* an entry for the join column b whose sides have the same values in
\* different numbers
C21_Witness ==
    /\ Successful /\ join_columns = Some(<<NameB>>)
    /\ NameB \in DOMAIN ret.value.distinct_values
    /\ ret.value.distinct_values[NameB].matching
    /\ ret.value.distinct_values[NameB].source_values
          # ret.value.distinct_values[NameB].target_values
    /\ ret.value.distinct_values[NameB].source_count = 1

\* the retained (prepared source) columns that are not join columns
NonJoinRetained == Range(ColNames(Prep.source)) \ Range(join_columns.list)

\* the cells of the column named c, nulls included
AllCellsOf(df, c) == ColValues(df, ColIndex(df, c))

NullsIn(q) == Cardinality({i \in DOMAIN q : q[i].kind = "null"})

\* the sum of the numbers q
Total(q) == SumSeq([i \in DOMAIN q |-> q[i].n])

\* m is the mean of the numbers q: m.num / m.den with m.den their count
IsMean(m, q) == m.den = Len(q) /\ m.num = Total(q)

\* d is the sample standard deviation of the numbers q, through its square
\* d.var_num / d.var_den: the squared distances to the mean, over Len(q) - 1
IsStd(d, q) ==
    /\ d.var_den = Len(q) * (Len(q) - 1)
    /\ Len(q) * d.var_num
          = SumSeq([i \in DOMAIN q |-> (Len(q) * q[i].n - Total(q)) * (Len(q) * q[i].n - Total(q))])

StatKeys == {"source_sum", "target_sum", "source_mean", "target_mean",
             "source_std", "target_std"}

\* C22: after a successful compare() column_summary has an entry for
\* exactly the retained columns that are not join columns; every entry
\* holds each side's null count and number of distinct values; the entry of
\* a numeric column also holds each side's sum, mean and standard deviation
\* over the non-null cells, the entry of any other column none of the three
C22_ColumnSummary ==
    Successful =>
        /\ DOMAIN ret.value.column_summary = NonJoinRetained
        /\ \A c \in DOMAIN ret.value.column_summary :
              LET e == ret.value.column_summary[c]
                  sa == AllCellsOf(Prep.source, c)
                  ta == AllCellsOf(Prep.target, c)
                  sv == CellsOf(Prep.source, c)
                  tv == CellsOf(Prep.target, c)
              IN  /\ e.source_null_count = NullsIn(sa)
                  /\ e.target_null_count = <<NullsIn(ta)>>
                  /\ e.source_unique_count = Cardinality(Range(sv))
                  /\ e.target_unique_count = <<Cardinality(Range(tv))>>
                  /\ IF IsNumeric(Prep.source.cols[ColIndex(Prep.source, c)].dtype)
                     THEN /\ StatKeys \subseteq DOMAIN e
                          /\ e.source_sum = Total(sv)
                          /\ e.target_sum = <<Total(tv)>>
                          /\ IsMean(e.source_mean, sv)
                          /\ IsMean(e.target_mean[1], tv)
                          /\ IsStd(e.source_std, sv)
                          /\ IsStd(e.target_std[1], tv)
                     ELSE StatKeys \cap DOMAIN e = {}

\* a summary of the numeric column a with a null on the source side, and of
\* the string column b
C22_Witness ==
    /\ Successful /\ join_columns = Some(<<>>)
    /\ DOMAIN ret.value.column_summary = {NameA, NameB}
    /\ ret.value.column_summary[NameA].source_null_count = 1
    /\ ret.value.column_summary[NameA].source_sum = 2
    /\ ret.value.column_summary[NameA].target_sum = <<3>>
    /\ ret.value.column_summary[NameB].target_null_count = <<1>>

\* the reconciliation of lines 143-174 raised and the handler of lines
\* 175-178 wrote its report
ReconciliationFailed ==
    FullResult /\ ret.value.datacompy_report.kind = "error_in_comparison"

\* C23: when the reconciliation fails after a successful preparation, the
\* result has match_status false, the failure in datacompy_report, both
\* unmatched tables empty, and rows_match, columns_match, column_summary,
\* row_counts and distinct_values as computed before the failure; it fails
\* whenever a join column is not a column of both prepared tables
C23_ReconciliationFailure ==
    /\ ReconciliationFailed =>
          /\ Prep.ok /\ Truthy(join_columns)
          /\ ~ret.value.match_status
          /\ ret.value.datacompy_report
                = ErrorReport(Merge(Prep.source, Prep.target, join_columns.list).exc)
          /\ ret.value.source_unmatched_rows = EmptyFrame
          /\ ret.value.target_unmatched_rows = EmptyFrame
          /\ ret.value.rows_match = (NRows(source_df) = NRows(target_df))
          /\ ret.value.columns_match
                = (Range(ColNames(Prep.source)) = Range(ColNames(Prep.target)))
          /\ ret.value.column_summary
                = GenerateColumnSummary(Prep.source, Prep.target, join_columns).summary
          /\ ret.value.row_counts = [source_name |-> "Source", target_name |-> "Target",
                                     source_count |-> NRows(source_df),
                                     target_count |-> NRows(target_df)]
          /\ ret.value.distinct_values
                = GetDistinctValues(source_df, target_df, mapping, NoneV)
    /\ (FullResult /\ Truthy(join_columns) /\ ~JoinColumnsInBoth) => ReconciliationFailed

\* a comparison joined on a column the mapping excludes: the report carries
\* the KeyError, the summary and the distinct values of the kept column stay
C23_Witness ==
    /\ ReconciliationFailed
    /\ \E k \in DOMAIN join_columns.list : join_columns.list[k] \in ExcludedOnly
    /\ ret.value.datacompy_report = ErrorReport("KeyError")
    /\ DOMAIN ret.value.column_summary # {}
    /\ DOMAIN ret.value.distinct_values # {}
    /\ ret.value.rows_match /\ ret.value.columns_match
    /\ NRows(source_df) > 0

\* the columns the last get_distinct_values call worked on: the list it was
\* given, or the default list of lines 277-278
Requested ==
    IF Truthy(ret.arg) THEN ret.arg.list ELSE DefaultColumns(Prep.source, Prep.target)

\* the column is in both prepared tables
InBoth(c) == HasCol(Prep.source, c) /\ HasCol(Prep.target, c)

\* value_counts() raises for the column: its label is not unique in one of
\* the prepared tables
FailsOn(c) ==
    /\ InBoth(c)
    /\ \/ Cardinality(ColPositions(Prep.source, c)) > 1
       \/ Cardinality(ColPositions(Prep.target, c)) > 1

\* the entry the column gets when it is the only one requested
EntryAlone(c) == GetDistinctValues(source_df, target_df, mapping, Some(<<c>>))[c]

KeptSourcesDistinct == Distinct([i \in DOMAIN KeptEntries |-> KeptEntries[i].source])

\* C24: a column on which the distinct-value computation fails is left out
\* of the returned map, and every other requested column of both prepared
\* tables gets the entry it gets when requested alone
C24_FailureIsolated ==
    (/\ ret.op = "get_distinct_values" /\ Prep.ok
     /\ Truthy(ret.arg) \/ KeptSourcesDistinct) =>
        \A i \in DOMAIN Requested :
            LET c == Requested[i]
            IN  /\ FailsOn(c) => c \notin DOMAIN ret.value
                /\ (InBoth(c) /\ ~FailsOn(c)) =>
                      (c \in DOMAIN ret.value /\ ret.value[c] = EntryAlone(c))

\* a call without a list under a mapping that names target column a twice:
\* column c fails, column b has its entry
C24_Witness ==
    /\ ret.op = "get_distinct_values" /\ Prep.ok /\ ~Truthy(ret.arg)
    /\ KeptSourcesDistinct
    /\ FailsOn(NameC)
    /\ DOMAIN ret.value = {NameB}
    /\ NRows(source_df) > 0 /\ NRows(target_df) > 0

\* the join columns that have an entry in distinct_values, in join order
JoinColumnsWithEntry ==
    SelectSeq(join_columns.list, LAMBDA c : c \in DOMAIN ret.value.distinct_values)

\* C25: the report of a reconciliation that succeeded states the row counts
\* of the result's row_counts and the sizes of the result's two unmatched
\* tables, and lists source and target distinct counts for exactly the join
\* columns that have an entry in the result's distinct_values
C25_Report ==
    Reconciled =>
        LET report == ret.value.datacompy_report
            dv == ret.value.distinct_values
        IN  /\ Truthy(join_columns)
            /\ report.source_rows = ret.value.row_counts.source_count
            /\ report.target_rows = ret.value.row_counts.target_count
            /\ report.unmatched_in_source = NRows(ret.value.source_unmatched_rows)
            /\ report.unmatched_in_target = NRows(ret.value.target_unmatched_rows)
            /\ [i \in DOMAIN report.distribution |-> report.distribution[i].col]
                   = JoinColumnsWithEntry
            /\ \A i \in DOMAIN report.distribution :
                  LET line == report.distribution[i]
                  IN  /\ line.source_unique = dv[line.col].source_count
                      /\ line.target_unique = dv[line.col].target_count

\* a reconciliation on two join columns of which one has a distinct-value
\* entry, that leaves unmatched rows on both sides
C25_Witness ==
    /\ Reconciled
    /\ Len(join_columns.list) = 2
    /\ Len(ret.value.datacompy_report.distribution) = 1
    /\ ret.value.datacompy_report.unmatched_in_source > 0
    /\ ret.value.datacompy_report.unmatched_in_target > 0
    /\ ret.value.datacompy_report.source_rows # ret.value.datacompy_report.target_rows

\* row r of the prepared table is row r of the caller's table, cut down to
\* the columns the kept entries name (names[i] is the caller's name of the
\* prepared column i)
RowsKept(prepared, df, names) ==
    /\ NRows(prepared) = NRows(df)
    /\ \A r \in DOMAIN df.rows : \A i \in DOMAIN names :
          prepared.rows[r][i] = df.rows[r][ColIndex(df, names[i])]

\* C26: preparation keeps every row of both tables, in order, and
\* row_counts holds the row counts of the caller's tables
C26_RowsKept ==
    /\ Prep.ok =>
          /\ RowsKept(Prep.source, source_df,
                      [i \in DOMAIN KeptEntries |-> KeptEntries[i].source])
          /\ RowsKept(Prep.target, target_df,
                      [i \in DOMAIN KeptEntries |-> KeptEntries[i].target])
    /\ FullResult =>
          /\ ret.value.row_counts.source_count = NRows(source_df)
          /\ ret.value.row_counts.target_count = NRows(target_df)

\* a result for two-row tables with a row of nulls each, under a mapping
\* that excludes a column
C26_Witness ==
    /\ FullResult
    /\ \E i \in DOMAIN mapping.list : mapping.list[i].exclude
    /\ NRows(source_df) = 2 /\ NRows(target_df) = 2
    /\ source_df.rows[1] # source_df.rows[2]
    /\ \E r \in DOMAIN source_df.rows : \A i \in DOMAIN source_df.cols :
          source_df.rows[r][i] = NullV
    /\ ret.value.row_counts.source_count = 2

\* C27: whatever compare() returns, match_status true means that the result
\* is a full one, the join-column list is not empty, the reconciliation ran
\* to its end, columns_match and rows_match are true and both unmatched
\* tables are empty; so it is false in a failure result and when the
\* reconciliation was skipped or failed
C27_MatchImplies ==
    (Compared /\ ret.value.match_status) =>
        /\ FullResult
        /\ Truthy(join_columns)
        /\ Reconciled
        /\ ret.value.columns_match
        /\ ret.value.rows_match
        /\ NoUnmatchedRows

\* a comparison of two non-empty tables that reports a match
C27_Witness ==
    /\ Compared /\ ret.value.match_status
    /\ NRows(source_df) > 0 /\ NRows(target_df) > 0
    /\ Len(Prep.source.cols) = 2

\* a kept entry of the recorded mapping has the empty target
HasUnmappedKept == \E i \in DOMAIN KeptEntries : KeptEntries[i].target = <<>>

\* C28: while a kept entry has the empty target and no target column is
\* named by the empty string, compare() returns the failure dict, for the
\* KeyError of the selection; so a full result needs every entry to be
\* excluded or to name a target
C28_UnmappedKept ==
    /\ (Compared /\ Truthy(mapping) /\ HasUnmappedKept /\ ~HasCol(target_df, <<>>)) =>
          /\ ~Prep.ok
          /\ TotalFailure
          /\ ret.value.error = "KeyError"
          /\ ~ret.value.match_status
    /\ (FullResult /\ ~HasCol(target_df, <<>>)) => ~HasUnmappedKept

\* compare() under the mapping auto_map_columns returns for these tables,
\* which leaves source column b without a target
C28_Witness ==
    /\ Compared /\ Truthy(mapping)
    /\ mapping.list = AutoMapColumns(source_df, target_df)
    /\ HasUnmappedKept
    /\ \A i \in DOMAIN KeptEntries : HasCol(source_df, KeptEntries[i].source)
    /\ NRows(source_df) > 0 /\ NRows(target_df) > 0
    /\ TotalFailure

\* the listed columns that are in both prepared tables
ListedInBoth == {c \in Range(ret.arg.list) : InBoth(c)}

\* what a call without a list returns in this state
DefaultResult == GetDistinctValues(source_df, target_df, mapping, NoneV)

\* C29: get_distinct_values() raises nothing; it returns the empty map when
\* preparation fails (no mapping recorded, or a kept column missing); given
\* a non-empty list it returns entries only for listed columns of both
\* prepared tables, numeric or not, and for each of them whose label is
\* unique; given the empty list it returns what it returns without a list
C29_GetDistinctValues ==
    ret.op = "get_distinct_values" =>
        /\ ~ret.raised
        /\ ~Prep.ok => DOMAIN ret.value = {}
        /\ (Prep.ok /\ Truthy(ret.arg)) =>
              /\ DOMAIN ret.value \subseteq ListedInBoth
              /\ \A c \in ListedInBoth : ~FailsOn(c) => c \in DOMAIN ret.value
        /\ (~ret.arg.isNone /\ ret.arg.list = <<>>) => ret.value = DefaultResult

\* a call with the empty list that returns the entry of the default column b
C29_Witness ==
    /\ ret.op = "get_distinct_values"
    /\ ~ret.arg.isNone /\ ret.arg.list = <<>>
    /\ Prep.ok
    /\ NameB \in DOMAIN ret.value
    /\ NRows(source_df) > 0 /\ NRows(target_df) > 0

\* the target columns some kept entry names
ReferencedTargets == {KeptEntries[i].target : i \in DOMAIN KeptEntries}

\* the caller's target table without the columns no kept entry names
Stripped(tdf) ==
    LET keep == SelectSeq([i \in DOMAIN tdf.cols |-> i],
                          LAMBDA i : tdf.cols[i].name \in ReferencedTargets)
    IN  [cols |-> [k \in DOMAIN keep |-> tdf.cols[keep[k]]],
         rows |-> [r \in DOMAIN tdf.rows |->
                     [k \in DOMAIN keep |-> tdf.rows[r][keep[k]]]]]

\* C30 as claimed: under a mapping whose kept entries share no source and no
\* target and name existing columns only, the prepared target has the
\* prepared source's column names and compare(), with a join-column list
\* recorded, returns columns_match true;
\* and compare() returns what it returns for the target table without the
\* columns no kept entry names
C30_UnreferencedDropped ==
    /\ (Prep.ok /\ KeptDistinct) =>
          Range(ColNames(Prep.target)) = Range(ColNames(Prep.source))
    /\ (Compared /\ Prep.ok /\ KeptDistinct /\ ~join_columns.isNone) =>
          (FullResult /\ ret.value.columns_match)
    /\ (Compared /\ Truthy(mapping)) =>
          ret.value = Compare(source_df, Stripped(target_df), mapping, join_columns).value

====
